---- MODULE Spec2Model ----
(***************************************************************************)
(* Model of src/utils.rs: resolve_include_path(include_dirs, file_path).   *)
(*                                                                         *)
(* A path is a sequence of components; an absolute path starts with the    *)
(* root component "/".  The host filesystem is a small tree: the root and  *)
(* two directories /a and /b always exist, and each directory has one      *)
(* entry "h" that is absent, a regular file, or a symbolic link.  The      *)
(* process's working directory is the root; cwdOK tells whether the host   *)
(* can still name it (getcwd), which canonicalization of a relative path   *)
(* needs and an existence check does not.                                  *)
(*                                                                         *)
(* Each filesystem call of the function (exists, canonicalize) is one      *)
(* atomic step.  Spec runs one call while a concurrent mutator may change  *)
(* the tree between any two steps and after the return; SpecPair runs two  *)
(* calls in a row, the second with any search list, on a tree that nobody  *)
(* changes.  trace, existed, mutations and prev are history variables: the *)
(* log of the call's filesystem checks, the paths that existed at some     *)
(* moment of the call, the number of mutations so far, and the first       *)
(* call's input and outcome.                                               *)
(***************************************************************************)
EXTENDS Integers, Sequences, FiniteSets, TLC

\* ---------------------------------------------------------------- bounds
MaxLen == 3
MaxMutations == 2

\* ------------------------------------------------------------ path names
Root == <<"/">>
DirA == <<"/", "a">>
DirB == <<"/", "b">>
RelA == <<"a">>
FileA == <<"/", "a", "h">>
FileB == <<"/", "b", "h">>

\* the directories a caller may list: absolute ones and a relative one
SearchDirs == {DirA, DirB, RelA}

\* the file references a caller may ask for: relative, with a parent
\* component, absolute, and empty
FileRefs == {<<"h">>, <<"..", "b", "h">>, FileB, <<>>}

RECURSIVE SeqsUpTo(_, _)
SeqsUpTo(S, n) ==
    IF n = 0 THEN {<<>>}
    ELSE LET shorter == SeqsUpTo(S, n - 1)
         IN  shorter \cup {Append(l, d) : l \in shorter, d \in S}

SearchLists == SeqsUpTo(SearchDirs, MaxLen)

\* ------------------------------------------------------------ filesystem
FixedDirs == {Root, DirA, DirB}
Slots == {FileA, FileB}
AllPaths == FixedDirs \cup Slots

Absent == [kind |-> "none", to |-> <<>>]
RegFile == [kind |-> "file", to |-> <<>>]
Directory == [kind |-> "dir", to |-> <<>>]
LinkTo(t) == [kind |-> "link", to |-> t]

\* what an entry slot may hold: nothing, a file, or a link to the other slot
SlotEntries(s) == {Absent, RegFile} \cup {LinkTo(t) : t \in Slots \ {s}}

FileSystems == {f \in [Slots -> UNION {SlotEntries(s) : s \in Slots}] :
                   \A s \in Slots : f[s] \in SlotEntries(s)}

Lookup(f, path) ==
    IF path \in FixedDirs THEN Directory
    ELSE IF path \in Slots THEN f[path]
    ELSE Absent

\* Option<PathBuf> and io::Result<PathBuf>
None == [some |-> FALSE, path |-> <<>>]
Some(pb) == [some |-> TRUE, path |-> pb]

Parent(path) == IF Len(path) <= 1 THEN path ELSE SubSeq(path, 1, Len(path) - 1)

\* Host path resolution from the resolved location cur through the
\* remaining components rest, following at most fuel symbolic links.
RECURSIVE WalkNoStat(_, _, _, _)
\* Walk, but a missing last component is accepted
WalkNoStat(f, cur, rest, fuel) ==
    IF rest = <<>> THEN Some(cur)
    ELSE IF Lookup(f, cur).kind # "dir" THEN None
    ELSE LET c == Head(rest)
             r == Tail(rest)
             nxt == Append(cur, c)
             e == Lookup(f, nxt)
         IN  IF c = "." THEN WalkNoStat(f, cur, r, fuel)
             ELSE IF c = ".." THEN WalkNoStat(f, Parent(cur), r, fuel)
             ELSE IF e.kind = "none" THEN (IF r = <<>> THEN Some(nxt) ELSE None)
             ELSE IF e.kind = "link"
                  THEN IF fuel = 0 THEN None
                       ELSE WalkNoStat(f, Root, Tail(e.to) \o r, fuel - 1)
             ELSE WalkNoStat(f, nxt, r, fuel)

RECURSIVE Walk(_, _, _, _)
Walk(f, cur, rest, fuel) ==
    IF rest = <<>> THEN Some(cur)
    ELSE IF Lookup(f, cur).kind # "dir" THEN None
    ELSE LET c == Head(rest)
             r == Tail(rest)
             nxt == Append(cur, c)
             e == Lookup(f, nxt)
         IN  IF c = "." THEN Walk(f, cur, r, fuel)
             ELSE IF c = ".." THEN Walk(f, Parent(cur), r, fuel)
             ELSE IF e.kind = "none" THEN None
             ELSE IF e.kind = "link"
                  THEN IF fuel = 0 THEN None
                       ELSE Walk(f, Root, Tail(e.to) \o r, fuel - 1)
             ELSE Walk(f, nxt, r, fuel)

SymlinkLimit == Cardinality(Slots)

\* Path::is_absolute, as PathBuf::push uses it
IsAbsolute(path) == Len(path) > 0 /\ path[1] = "/"

Resolve(f, path) ==
    IF IsAbsolute(path) THEN Walk(f, Root, Tail(path), SymlinkLimit)
    ELSE Walk(f, Root, path, SymlinkLimit)

\* p.exists(): metadata(p).is_ok(), following links
Exists(f, path) == Resolve(f, path).some

\* a canonicalize that hands back its argument once it resolves
CanonicalizeLexical(f, ok, path) ==
    IF Resolve(f, path).some THEN Some(path) ELSE None

\* a canonicalize that does not require the last component to exist
CanonicalizeNoStat(f, ok, path) ==
    IF ~IsAbsolute(path) /\ ~ok THEN None
    ELSE IF IsAbsolute(path) THEN WalkNoStat(f, Root, Tail(path), SymlinkLimit)
    ELSE WalkNoStat(f, Root, path, SymlinkLimit)

\* p.canonicalize(): the resolved absolute path, or an error
Canonicalize(f, ok, path) ==
    IF ~IsAbsolute(path) /\ ~ok THEN None ELSE Resolve(f, path)

\* a join that appends even an absolute right-hand side
JoinAppend(d, file) == IF IsAbsolute(file) THEN d \o Tail(file) ELSE d \o file

\* p = d.clone(); p.push(file_path)
Join(d, file) == IF IsAbsolute(file) THEN file ELSE d \o file

\* ----------------------------------------------------------------- state
VARIABLES include_dirs, file_path, fs, cwdOK, pc, i, p, result,
          trace, existed, mutations, prev

vars == <<include_dirs, file_path, fs, cwdOK, pc, i, p, result,
          trace, existed, mutations, prev>>

ExistingPaths(f) == {q \in AllPaths : Exists(f, q)}

Init ==
    /\ include_dirs \in SearchLists
    /\ file_path \in FileRefs
    /\ fs \in FileSystems
    /\ cwdOK \in BOOLEAN
    /\ pc = "loop"
    /\ i = 1
    /\ p = <<>>
    /\ result = None
    /\ trace = <<>>
    /\ existed = ExistingPaths(fs)
    /\ mutations = 0
    /\ prev = [dirs |-> <<>>, result |-> None, valid |-> FALSE]

\* the loop walking the list from its end
ProbeExistsReversed ==
    /\ pc = "loop"
    /\ i <= Len(include_dirs)
    /\ LET c == Join(include_dirs[Len(include_dirs) + 1 - i], file_path)
           ok == Exists(fs, c)
       IN  /\ p' = c
           /\ trace' = Append(trace, [op |-> "exists", idx |-> i, path |-> c, ok |-> ok])
           /\ IF ok THEN pc' = "canon" /\ i' = i
                    ELSE pc' = "loop" /\ i' = i + 1
    /\ UNCHANGED <<include_dirs, file_path, fs, cwdOK, result, existed,
                   mutations, prev>>

\* line 9-13: take the next directory, form the candidate, test it
ProbeExists ==
    /\ pc = "loop"
    /\ i <= Len(include_dirs)
    /\ LET c == Join(include_dirs[i], file_path)
           ok == Exists(fs, c)
       IN  /\ p' = c
           /\ trace' = Append(trace, [op |-> "exists", idx |-> i, path |-> c, ok |-> ok])
           /\ IF ok THEN pc' = "canon" /\ i' = i
                    ELSE pc' = "loop" /\ i' = i + 1
    /\ UNCHANGED <<include_dirs, file_path, fs, cwdOK, result, existed,
                   mutations, prev>>

\* a failed canonicalization ends the search
ProbeCanonicalizeOrGiveUp ==
    /\ pc = "canon"
    /\ LET r == Canonicalize(fs, cwdOK, p)
       IN  /\ trace' = Append(trace, [op |-> "canonicalize", idx |-> i, path |-> p, ok |-> r.some])
           /\ pc' = "done"
           /\ result' = r
           /\ i' = i
    /\ UNCHANGED <<include_dirs, file_path, fs, cwdOK, p, existed,
                   mutations, prev>>

\* a successful canonicalization does not end the search
ProbeCanonicalizeKeepGoing ==
    /\ pc = "canon"
    /\ LET r == Canonicalize(fs, cwdOK, p)
       IN  /\ trace' = Append(trace, [op |-> "canonicalize", idx |-> i, path |-> p, ok |-> r.some])
           /\ IF r.some /\ i = Len(include_dirs)
              THEN pc' = "done" /\ result' = Some(r.path) /\ i' = i
              ELSE pc' = "loop" /\ result' = result /\ i' = i + 1
    /\ UNCHANGED <<include_dirs, file_path, fs, cwdOK, p, existed,
                   mutations, prev>>

\* line 14-16: canonicalize the candidate; return it or go on
ProbeCanonicalize ==
    /\ pc = "canon"
    /\ LET r == Canonicalize(fs, cwdOK, p)
       IN  /\ trace' = Append(trace, [op |-> "canonicalize", idx |-> i, path |-> p, ok |-> r.some])
           /\ IF r.some THEN pc' = "done" /\ result' = Some(r.path) /\ i' = i
                        ELSE pc' = "loop" /\ result' = result /\ i' = i + 1
    /\ UNCHANGED <<include_dirs, file_path, fs, cwdOK, p, existed,
                   mutations, prev>>

\* the loop stopping one entry short
ReturnNoneEarly ==
    /\ pc = "loop"
    /\ i >= Len(include_dirs)
    /\ pc' = "done"
    /\ result' = None
    /\ UNCHANGED <<include_dirs, file_path, fs, cwdOK, i, p, trace, existed,
                   mutations, prev>>

\* line 20: the list is exhausted
ReturnNone ==
    /\ pc = "loop"
    /\ i > Len(include_dirs)
    /\ pc' = "done"
    /\ result' = None
    /\ UNCHANGED <<include_dirs, file_path, fs, cwdOK, i, p, trace, existed,
                   mutations, prev>>

\* another process creates, deletes or re-links an entry, or makes the
\* working directory (un)nameable, at any moment of the call or after it
Mutate ==
    /\ mutations < MaxMutations
    /\ \/ \E s \in Slots :
            \E e \in SlotEntries(s) :
            /\ e # fs[s]
            /\ fs' = [fs EXCEPT ![s] = e]
            /\ cwdOK' = cwdOK
       \/ /\ cwdOK' = ~cwdOK
          /\ fs' = fs
    /\ existed' = IF pc = "done" THEN existed ELSE existed \cup ExistingPaths(fs')
    /\ mutations' = mutations + 1
    /\ UNCHANGED <<include_dirs, file_path, pc, i, p, result, trace, prev>>

\* a second call whose loop resumes after the first call's position
CallAgainResume ==
    /\ pc = "done"
    /\ ~prev.valid
    /\ \E l \in SearchLists :
          include_dirs' = l
    /\ prev' = [dirs |-> include_dirs, result |-> result, valid |-> TRUE]
    /\ pc' = "loop"
    /\ i' = i + 1
    /\ p' = <<>>
    /\ result' = None
    /\ trace' = <<>>
    /\ existed' = ExistingPaths(fs)
    /\ UNCHANGED <<file_path, fs, cwdOK, mutations>>

\* line 7-9: the caller calls a second time on the filesystem as it is, with
\* the same file reference and any search list; the loop starts afresh
CallAgain ==
    /\ pc = "done"
    /\ ~prev.valid
    /\ \E l \in SearchLists :
          include_dirs' = l
    /\ prev' = [dirs |-> include_dirs, result |-> result, valid |-> TRUE]
    /\ pc' = "loop"
    /\ i' = 1
    /\ p' = <<>>
    /\ result' = None
    /\ trace' = <<>>
    /\ existed' = ExistingPaths(fs)
    /\ UNCHANGED <<file_path, fs, cwdOK, mutations>>

\* one call, with the filesystem changing under it
Next == ProbeExists \/ ProbeCanonicalize \/ ReturnNone \/ Mutate

Spec == Init /\ [][Next]_vars

\* two calls in a row on an unchanging filesystem
NextPair == ProbeExists \/ ProbeCanonicalize \/ ReturnNone \/ CallAgain

SpecPair == Init /\ [][NextPair]_vars

\* ------------------------------------------------- what the claims speak of
Candidate(L, k) == Join(L[k], file_path)

\* on the filesystem as it is now, entry k of L exists and canonicalizes
Matches(L, k) ==
    /\ Exists(fs, Candidate(L, k))
    /\ Canonicalize(fs, cwdOK, Candidate(L, k)).some

CanonicalMatch(L, k) == Canonicalize(fs, cwdOK, Candidate(L, k))

FirstMatch(L, k) == Matches(L, k) /\ \A j \in 1..(k - 1) : ~Matches(L, j)

Returned == pc = "done"
Unchanged == mutations = 0

ExistsProbes == SelectSeq(trace, LAMBDA t : t.op = "exists")

\* the last trace entry is a successful canonicalization
EndsInSuccess ==
    /\ trace # <<>>
    /\ trace[Len(trace)].op = "canonicalize"
    /\ trace[Len(trace)].ok

\* no "." or "..", and no symbolic link at any component
IsCanonical(f, path) ==
    \A n \in 2..Len(path) :
        /\ path[n] \notin {".", ".."}
        /\ Lookup(f, SubSeq(path, 1, n)).kind \in {"file", "dir"}

Swap(L, a, b) ==
    [k \in 1..Len(L) |-> IF k = a THEN L[b] ELSE IF k = b THEN L[a] ELSE L[k]]

RECURSIVE DedupUpTo(_, _)
DedupUpTo(L, n) ==
    IF n = 0 THEN <<>>
    ELSE IF \E j \in 1..(n - 1) : L[j] = L[n]
         THEN DedupUpTo(L, n - 1)
         ELSE Append(DedupUpTo(L, n - 1), L[n])

Dedup(L) == DedupUpTo(L, Len(L))

\* ------------------------------------------------------------------ claims

\* C1: on an unchanging filesystem, if k is the smallest index whose
\* candidate exists and canonicalizes, the call returns exactly the
\* canonical path of that candidate, never that of a later match.
C1_FirstMatchWins ==
    (Returned /\ Unchanged) =>
        \A k \in 1..Len(include_dirs) :
            FirstMatch(include_dirs, k) => result = CanonicalMatch(include_dirs, k)

\* the first match is returned although a later entry matches a different file
C1_Witness ==
    /\ Returned /\ Unchanged
    /\ \E k \in 1..Len(include_dirs) :
          /\ FirstMatch(include_dirs, k)
          /\ result = CanonicalMatch(include_dirs, k)
          /\ \E j \in (k + 1)..Len(include_dirs) :
                /\ Matches(include_dirs, j)
                /\ CanonicalMatch(include_dirs, j) # result

\* C2: a candidate that exists but fails to canonicalize is skipped without
\* an error outcome: the next directory is probed next, a not-found result
\* means every later directory was probed and failed too, and a found result
\* is the successful canonicalization of a later directory.
C2_FailedCanonicalizeSkipped ==
    \A n \in DOMAIN trace :
        (trace[n].op = "canonicalize" /\ ~trace[n].ok) =>
            /\ result \in {None} \cup {Some(q) : q \in AllPaths}
            /\ n < Len(trace) =>
                  /\ trace[n + 1].op = "exists"
                  /\ trace[n + 1].idx = trace[n].idx + 1
            /\ n = Len(trace) =>
                  \/ pc = "loop" /\ i = trace[n].idx + 1
                  \/ pc = "done" /\ result = None /\ trace[n].idx = Len(include_dirs)
            /\ (Returned /\ result = None) =>
                  \A k \in (trace[n].idx + 1)..Len(include_dirs) :
                      \E m \in (n + 1)..Len(trace) :
                          trace[m].idx = k /\ trace[m].op = "exists"
            /\ (Returned /\ result.some) =>
                  /\ EndsInSuccess
                  /\ trace[Len(trace)].idx > trace[n].idx

\* a candidate passed the existence check, failed to canonicalize, and a
\* later directory's match was returned
C2_Witness ==
    /\ Returned /\ result.some
    /\ \E n \in DOMAIN trace :
          /\ n > 1
          /\ trace[n].op = "canonicalize" /\ ~trace[n].ok
          /\ trace[n - 1].op = "exists" /\ trace[n - 1].ok

\* C3: the call returns not-found exactly when every entry of the search
\* list was probed and none both existed and canonicalized when probed; an
\* empty search list always gives not-found.
C3_NotFoundIffNoProbeSucceeds ==
    Returned =>
        /\ result = None <=>
              \A k \in 1..Len(include_dirs) :
                  /\ \E n \in DOMAIN trace : trace[n].op = "exists" /\ trace[n].idx = k
                  /\ ~\E n \in DOMAIN trace :
                        trace[n].op = "canonicalize" /\ trace[n].idx = k /\ trace[n].ok
        /\ include_dirs = <<>> => result = None

\* not-found after probing a non-empty list in which one candidate existed
C3_Witness ==
    /\ Returned /\ result = None
    /\ Len(include_dirs) >= 2
    /\ \E n \in DOMAIN trace : trace[n].op = "exists" /\ trace[n].ok

\* C4: the outcome is not-found or a path that is absolute and free of "."
\* and ".."; if the filesystem was not mutated, that path has no symbolic
\* link component and names an existing entry after the call.
C4_AbsoluteCanonicalExisting ==
    (Returned /\ result.some) =>
        /\ IsAbsolute(result.path)
        /\ \A n \in 2..Len(result.path) : result.path[n] \notin {".", ".."}
        /\ Unchanged => IsCanonical(fs, result.path) /\ Exists(fs, result.path)

\* a relative candidate through a symbolic link was returned as the
\* absolute path of the link's target
C4_Witness ==
    /\ Returned /\ result.some /\ Unchanged
    /\ ~IsAbsolute(p)
    /\ Lookup(fs, Root \o p).kind = "link"
    /\ result.path # Root \o p

\* C5: under any interleaving of the mutator, a returned path named an
\* existing entry at some instant between the call's start and its return.
C5_ExistedDuringCall ==
    (Returned /\ result.some) => result.path \in existed

\* a path was returned after a mutation and no longer exists
C5_Witness ==
    /\ Returned /\ result.some
    /\ mutations > 0
    /\ ~Exists(fs, result.path)

\* C6: with an absolute file reference every candidate is the reference
\* itself, and on an unchanging filesystem the result for any non-empty
\* search list is canonicalize(F) if F exists and canonicalizes, not-found
\* otherwise; so two non-empty lists give the same result.
C6_AbsoluteIgnoresList ==
    (Returned /\ IsAbsolute(file_path) /\ include_dirs # <<>>) =>
        /\ \A n \in DOMAIN trace : trace[n].path = file_path
        /\ result = IF Exists(fs, file_path) /\ Canonicalize(fs, cwdOK, file_path).some
                    THEN Canonicalize(fs, cwdOK, file_path)
                    ELSE None
        /\ (prev.valid /\ prev.dirs # <<>>) => result = prev.result

\* an absolute reference was found through two different non-empty lists
C6_Witness ==
    /\ Returned /\ prev.valid /\ IsAbsolute(file_path)
    /\ include_dirs # <<>> /\ prev.dirs # <<>>
    /\ \A k \in DOMAIN include_dirs : \A j \in DOMAIN prev.dirs : include_dirs[k] # prev.dirs[j]
    /\ result.some /\ result = prev.result

\* the second call's list is the first call's with positions a < b swapped,
\* and both swapped directories contain a match
SwappedMatches(a, b) ==
    /\ a < b
    /\ include_dirs = Swap(prev.dirs, a, b)
    /\ Matches(prev.dirs, a)
    /\ Matches(prev.dirs, b)

\* C7 as stated: swapping two directories that both contain matches makes
\* the call return the match under the now-earlier directory.
C7_SwapReturnsNowEarlier ==
    (Returned /\ prev.valid) =>
        \A a \in DOMAIN prev.dirs : \A b \in DOMAIN prev.dirs :
            SwappedMatches(a, b) => result = CanonicalMatch(prev.dirs, b)

\* C7 amended: swapping two directories that both contain matches makes the
\* call return the match under the now-earlier directory provided no
\* directory before both of them contains a match; if one does, the call
\* returns what it returned before the swap.
C7_SwapOfFirstMatch ==
    (Returned /\ prev.valid) =>
        \A a \in DOMAIN prev.dirs : \A b \in DOMAIN prev.dirs :
            SwappedMatches(a, b) =>
                IF \A j \in 1..(a - 1) : ~Matches(prev.dirs, j)
                THEN result = CanonicalMatch(prev.dirs, b)
                ELSE result = prev.result

\* a swap of the first match with a later match of a different file changed
\* the returned path
C7_Witness ==
    /\ Returned /\ prev.valid
    /\ \E a \in DOMAIN prev.dirs : \E b \in DOMAIN prev.dirs :
          /\ SwappedMatches(a, b)
          /\ \A j \in 1..(a - 1) : ~Matches(prev.dirs, j)
          /\ prev.result = CanonicalMatch(prev.dirs, a)
          /\ result = CanonicalMatch(prev.dirs, b)
          /\ result # prev.result

\* C8: on an unchanging filesystem, removing every later occurrence of a
\* directory already present earlier in the list does not change the outcome.
C8_DuplicatesAsFirstOccurrence ==
    (Returned /\ prev.valid /\ include_dirs = Dedup(prev.dirs)) =>
        result = prev.result

\* a list with a directory repeated after another one, and its deduplicated
\* form, found the same path
C8_Witness ==
    /\ Returned /\ prev.valid
    /\ include_dirs = Dedup(prev.dirs)
    /\ Len(include_dirs) > 1
    /\ Len(prev.dirs) > Len(include_dirs)
    /\ prev.dirs[Len(prev.dirs)] = prev.dirs[1]
    /\ result.some /\ result = prev.result

C10_ProbesArePrefix ==
    /\ Len(ExistsProbes) <= Len(include_dirs)
    /\ \A n \in DOMAIN ExistsProbes :
          ExistsProbes[n].path = Join(include_dirs[n], file_path)
    /\ \A n \in DOMAIN trace :
          trace[n].op = "canonicalize" =>
              /\ n > 1
              /\ trace[n - 1].op = "exists"
              /\ trace[n - 1].ok
              /\ trace[n - 1].path = trace[n].path
              /\ trace[n].ok => n = Len(trace)

\* the call returned a match at the second entry and left the third unprobed
C10_Witness ==
    /\ Returned /\ result.some
    /\ Len(ExistsProbes) = 2
    /\ Len(include_dirs) > 2

====
